---- MODULE Spec2Model ----
(***************************************************************************)
(* Model of the OCR consensus selector, src/src/extractors/ocr_selector.py *)
(* (class OCRSelector) with the data types of src/src/models/data_models.py*)
(*                                                                         *)
(* Numbers.  Python floats are modelled by exact or fixed-point numbers:   *)
(*   - an engine weight is an integer count of 1/WeightScale units; the    *)
(*     product of a weight with 1.05 or 0.95 is rounded to the nearest     *)
(*     unit, as the float product is rounded to the nearest double;        *)
(*   - a confidence is an integer count of 1/ConfScale units;              *)
(*   - a similarity ratio and a consensus score are exact rationals        *)
(*     <<numerator, denominator>> in lowest terms.                         *)
(* Texts are sequences of characters.  The fields of OCRResult the         *)
(* selector never reads (bounding_boxes, processing_time, metadata) are    *)
(* left out of the records.                                                *)
(***************************************************************************)
EXTENDS Integers, Sequences, FiniteSets, TLC

(***************************************************************************)
(* Bounds of the model.                                                    *)
(***************************************************************************)
\* feedback calls explored by the feedback specification
MaxUpdates == 46
\* feedback calls explored by the selection specifications
MaxFeedback == 1
\* length of the results list in the scoring specification
MaxScored == 3
\* length of the results list in the voting specification
MaxVoters == 3
\* length of the results list in the orientation specification
MaxOriented == 3
\* the longest results list given with a value that is no strategy
MaxGiven == 2
\* feedback calls made before the threads of the dirty-read specification
MaxWarm == 10
\* the longest results list of the dirty-read specification
MaxRacing == 2

(***************************************************************************)
(* Number representation.                                                  *)
(***************************************************************************)
WeightScale == 1000000
ConfScale == 10

Min(a, b) == IF a < b THEN a ELSE b
Max(a, b) == IF a > b THEN a ELSE b

RECURSIVE Gcd(_, _)
Gcd(a, b) == IF b = 0 THEN a ELSE Gcd(b, a % b)

\* the rational n/d (n >= 0, d > 0) in lowest terms
Rat(n, d) == LET g == Gcd(n, d) IN <<n \div g, d \div g>>
RatAdd(p, q) == Rat(p[1] * q[2] + q[1] * p[2], p[2] * q[2])
RatDivInt(p, n) == Rat(p[1], p[2] * n)
RatGreater(p, q) == p[1] * q[2] > q[1] * p[2]
RatZero == <<0, 1>>
RatOne == <<1, 1>>

(***************************************************************************)
(* data_models.py                                                          *)
(***************************************************************************)
HORIZONTAL == "horizontal"
VERTICAL == "vertical"
MIXED == "mixed"
TextOrientation == {HORIZONTAL, VERTICAL, MIXED}

CONFIDENCE_WEIGHTED == "confidence_weighted"
MAJORITY_VOTE == "majority_vote"
LEARNED == "learned"
OCRSelectionStrategy == {CONFIDENCE_WEIGHTED, MAJORITY_VOTE, LEARNED}

PENDING == "pending"
None == "None"

OCRResult(engine, text, confidence, orientation) ==
    [engine |-> engine, text |-> text, confidence |-> confidence,
     orientation |-> orientation]

OCRConsensus(selected_text, selected_engine, all_results, consensus_score, orientation) ==
    [selected_text |-> selected_text, selected_engine |-> selected_engine,
     all_results |-> all_results, consensus_score |-> consensus_score,
     orientation |-> orientation, validation_status |-> PENDING,
     corrected_text |-> None, user_notes |-> None]

(***************************************************************************)
(* Outcome of a call: a returned value or a raised exception.              *)
(***************************************************************************)
Return(v) == [status |-> "return", value |-> v]
Raise(e) == [status |-> "raise", value |-> e]

(***************************************************************************)
(* State of the program.                                                   *)
(***************************************************************************)
VARIABLES
    weights_path,    \* OCRSelector.weights_path: None or the path
    engine_weights,  \* OCRSelector.engine_weights: engine -> weight
    storage,         \* the file at the weights path: Absent or its content
    constructed,     \* OCRSelector.__init__ returned a selector
    nUpdates,        \* number of update_weights calls made outside threads
    call,            \* the last call made on the selector and its arguments
    ret,             \* the outcome of the last call
    extraction,      \* TextExtractor.get_chars_from_image: what the call did
    threads          \* the call each thread is running, and its locals

vars == <<weights_path, engine_weights, storage, constructed, nUpdates,
          call, ret, extraction, threads>>

WeightsFile == "data/weights.json"
\* no file at the weights path
Absent == [content |-> "absent"]
\* content of a file that was opened for writing and never written
EmptyFile == [content |-> "empty"]
\* content of a file holding a JSON object engine -> weight
JsonFile(mapping) == [content |-> "json", mapping |-> mapping]

\* get_chars_from_image was not called
NoExtraction ==
    [op |-> "none", extracts |-> <<>>, ocr_results |-> <<>>, passed |-> <<>>,
     outcome |-> Return(None)]

\* the threads of the process that share one selector
Threads == {1, 2}
\* a thread that runs no call: op is the method, pc the line it is at, tmp
\* the value it holds on the evaluation stack, reads the weights it looked
\* up, seen the file content it read
IdleThread ==
    [op |-> "none", pc |-> "idle", engine |-> "", was_correct |-> FALSE,
     results |-> <<>>, tmp |-> 0, reads |-> <<>>, seen |-> Absent,
     outcome |-> Return(None)]

(***************************************************************************)
(* The name json in ocr_selector.py is bound by `from pydantic import      *)
(* json`: the module pydantic.json, which defines neither load nor dump.   *)
(* Looking either attribute up raises AttributeError.                      *)
(***************************************************************************)
json_load(file) == Raise("AttributeError")
json_dump(mapping, file) == Raise("AttributeError")

(***************************************************************************)
(* OCRSelector.load_weights                                                *)
(***************************************************************************)
DefaultWeights ==
    [e \in {"tesseract", "easyocr", "manga_ocr"} |->
        IF e = "manga_ocr" THEN (12 * WeightScale) \div 10 ELSE WeightScale]

load_weights(path, file) ==
    IF path /= None /\ file /= Absent
    THEN json_load(file)
    ELSE Return(DefaultWeights)

\* a file a caller may find at the weights path before construction
PriorStorage == {Absent, EmptyFile, JsonFile(DefaultWeights)}

(***************************************************************************)
(* OCRSelector.__init__: the state after construction was attempted.       *)
(***************************************************************************)
Init ==
    /\ weights_path \in {None, WeightsFile}
    /\ storage \in (IF weights_path = None THEN {Absent} ELSE PriorStorage)
    /\ LET loaded == load_weights(weights_path, storage)
       IN /\ constructed = (loaded.status = "return")
          /\ engine_weights = (IF loaded.status = "return" THEN loaded.value
                               ELSE <<>>)
          /\ ret = (IF loaded.status = "return" THEN Return(None) ELSE loaded)
    /\ nUpdates = 0
    /\ call = [op |-> "__init__"]
    /\ extraction = NoExtraction
    /\ threads = [t \in Threads |-> IdleThread]

(***************************************************************************)
(* OCRSelector._save_weights: the file after the call, and the outcome.    *)
(* open(path, 'w') creates or truncates the file before json.dump is       *)
(* looked up.                                                              *)
(***************************************************************************)
save_weights(path, weights, file) ==
    IF path /= None
    THEN LET dumped == json_dump(weights, EmptyFile)
         IN IF dumped.status = "raise"
            THEN [file |-> EmptyFile, outcome |-> dumped]
            ELSE [file |-> JsonFile(weights), outcome |-> Return(None)]
    ELSE [file |-> file, outcome |-> Return(None)]

(***************************************************************************)
(* OCRSelector.update_weights                                              *)
(***************************************************************************)
WeightMin == WeightScale \div 10
WeightMax == 2 * WeightScale
PercentCorrect == 105
PercentIncorrect == 95

\* the float product w * (percent / 100), rounded to the nearest unit
Scaled(w, percent) == (w * percent + 50) \div 100

\* the clamp without its upper end
ClampBelowOnly(w) == Max(WeightMin, w)

\* the clamp without its lower end
ClampAboveOnly(w) == Min(WeightMax, w)

Clamp(w) == Max(WeightMin, Min(WeightMax, w))

Adjusted(weights, engine, was_correct) ==
    LET seeded == IF engine \in DOMAIN weights THEN weights
                  ELSE weights @@ (engine :> WeightScale)
        scaled == [seeded EXCEPT ![engine] =
                      IF was_correct THEN Scaled(@, PercentCorrect)
                      ELSE Scaled(@, PercentIncorrect)]
    IN [scaled EXCEPT ![engine] = Clamp(@)]

\* an adjustment that is undone when the save raises
update_weightsRollingBack(engine, was_correct) ==
    /\ constructed
    /\ LET saved == save_weights(weights_path,
                                 Adjusted(engine_weights, engine, was_correct),
                                 storage)
       IN /\ engine_weights' =
                (IF saved.outcome.status = "raise" THEN engine_weights
                 ELSE Adjusted(engine_weights, engine, was_correct))
          /\ storage' = saved.file
          /\ ret' = saved.outcome
    /\ call' = [op |-> "update_weights", engine |-> engine,
                was_correct |-> was_correct]
    /\ nUpdates' = nUpdates + 1
    /\ UNCHANGED <<weights_path, constructed, extraction, threads>>

update_weights(engine, was_correct) ==
    /\ constructed
    /\ LET saved == save_weights(weights_path,
                                 Adjusted(engine_weights, engine, was_correct),
                                 storage)
       IN /\ engine_weights' = Adjusted(engine_weights, engine, was_correct)
          /\ storage' = saved.file
          /\ ret' = saved.outcome
    /\ call' = [op |-> "update_weights", engine |-> engine,
                was_correct |-> was_correct]
    /\ nUpdates' = nUpdates + 1
    /\ UNCHANGED <<weights_path, constructed, extraction, threads>>

(***************************************************************************)
(* difflib.SequenceMatcher(None, a, b).ratio(), for texts shorter than the *)
(* 200 characters at which difflib starts to discard popular characters.   *)
(* Indices are Python's: a[i] is the TLA+ element a[i + 1].                *)
(***************************************************************************)
\* a[i : i + k] == b[j : j + k]
SameBlock(a, b, i, j, k) == \A d \in 0 .. k - 1 : a[i + d + 1] = b[j + d + 1]

\* SequenceMatcher.find_longest_match: the longest block common to
\* a[alo:ahi] and b[blo:bhi]; of those the one starting earliest in a, and
\* of those the one starting earliest in b; <<alo, blo, 0>> if there is none
find_longest_match(a, b, alo, ahi, blo, bhi) ==
    LET blocks == {m \in (alo .. ahi - 1) \X (blo .. bhi - 1) \X (1 .. ahi - alo) :
                      /\ m[1] + m[3] <= ahi
                      /\ m[2] + m[3] <= bhi
                      /\ SameBlock(a, b, m[1], m[2], m[3])}
        Before(m, n) == \/ m[3] > n[3]
                        \/ m[3] = n[3] /\ m[1] < n[1]
                        \/ m[3] = n[3] /\ m[1] = n[1] /\ m[2] <= n[2]
    IN IF blocks = {} THEN <<alo, blo, 0>>
       ELSE CHOOSE m \in blocks : \A n \in blocks : Before(m, n)

\* SequenceMatcher.get_matching_blocks: the total size of the blocks found
\* by matching the longest block, then the parts left and right of it
RECURSIVE matching_size(_, _, _, _, _, _)
matching_size(a, b, alo, ahi, blo, bhi) ==
    LET m == find_longest_match(a, b, alo, ahi, blo, bhi)
        i == m[1]
        j == m[2]
        k == m[3]
    IN IF k = 0 THEN 0
       ELSE k + (IF alo < i /\ blo < j
                 THEN matching_size(a, b, alo, i, blo, j) ELSE 0)
              + (IF i + k < ahi /\ j + k < bhi
                 THEN matching_size(a, b, i + k, ahi, j + k, bhi) ELSE 0)

\* SequenceMatcher.ratio: 2.0 * matches / length, 1.0 when both are empty
ratio(a, b) ==
    IF Len(a) + Len(b) = 0 THEN RatOne
    ELSE Rat(2 * matching_size(a, b, 0, Len(a), 0, Len(b)), Len(a) + Len(b))

(***************************************************************************)
(* OCRSelector.confidence_weighted_selection and learned_selection: the    *)
(* index of the result the loop leaves in best_result, 0 for None.         *)
(***************************************************************************)
\* self.engine_weights.get(engine, 1.0)
WeightOf(weights, engine) ==
    IF engine \in DOMAIN weights THEN weights[engine] ELSE WeightScale

\* result.confidence * weight, in units of 1 / (ConfScale * WeightScale)
WeightedScore(weights, r) == r.confidence * WeightOf(weights, r.engine)

\* (result.confidence * 0.3) + (weight * 0.7), in units of
\* 1 / (10 * ConfScale * WeightScale)
LearnedScore(weights, r) ==
    3 * r.confidence * WeightScale + 7 * ConfScale * WeightOf(weights, r.engine)

\* the selection loop replacing the incumbent on an equal score as well
RECURSIVE BestSoFarLastWins(_, _, _)
BestSoFarLastWins(scores, unit, n) ==
    IF n = 0 THEN <<0, -1 * unit>>
    ELSE LET prev == BestSoFarLastWins(scores, unit, n - 1)
         IN IF scores[n] >= prev[2] THEN <<n, scores[n]>> ELSE prev

\* the loop `for result in results: if score > best_score: ...` after its
\* first n iterations, as <<index of best_result, best_score>>; scores[i]
\* is the score the loop computes for result i, unit the value of 1
RECURSIVE BestSoFar(_, _, _)
BestSoFar(scores, unit, n) ==
    IF n = 0 THEN <<0, -1 * unit>>
    ELSE LET prev == BestSoFar(scores, unit, n - 1)
         IN IF scores[n] > prev[2] THEN <<n, scores[n]>> ELSE prev

confidence_weighted_selection(weights, results) ==
    LET scores == [i \in 1 .. Len(results) |-> WeightedScore(weights, results[i])]
    IN BestSoFar(scores, ConfScale * WeightScale, Len(results))[1]

learned_selection(weights, results) ==
    LET scores == [i \in 1 .. Len(results) |-> LearnedScore(weights, results[i])]
    IN BestSoFar(scores, 10 * ConfScale * WeightScale, Len(results))[1]

(***************************************************************************)
(* OCRSelector.majority_vote_selection                                     *)
(***************************************************************************)
\* total_similarity of result i after the inner loop has seen j = 1 .. n
RECURSIVE total_similarity(_, _, _)
total_similarity(results, i, n) ==
    IF n = 0 THEN RatZero
    ELSE IF n = i THEN total_similarity(results, i, n - 1)
    ELSE RatAdd(total_similarity(results, i, n - 1),
                ratio(results[i].text, results[n].text))

avg_similarity(results, i) ==
    RatDivInt(total_similarity(results, i, Len(results)), Len(results) - 1)

\* the last of the greatest instead of the first
RECURSIVE LastMaxSimilarity(_, _)
LastMaxSimilarity(results, n) ==
    IF n = 1 THEN 1
    ELSE LET prev == LastMaxSimilarity(results, n - 1)
         IN IF RatGreater(avg_similarity(results, prev), avg_similarity(results, n))
            THEN prev ELSE n

\* max(similarity_scores, key=...): the first of the greatest, over 1 .. n
RECURSIVE FirstMaxSimilarity(_, _)
FirstMaxSimilarity(results, n) ==
    IF n = 1 THEN 1
    ELSE LET prev == FirstMaxSimilarity(results, n - 1)
         IN IF RatGreater(avg_similarity(results, n), avg_similarity(results, prev))
            THEN n ELSE prev

majority_vote_selection(results) == FirstMaxSimilarity(results, Len(results))

(***************************************************************************)
(* OCRSelector.calculate_consensus                                         *)
(***************************************************************************)
\* the pairs (i, j) of the nested loops, in loop order
Pairs(n) == {p \in (1 .. n) \X (1 .. n) : p[1] < p[2]}

RECURSIVE SumSimilarities(_, _)
SumSimilarities(results, pairs) ==
    IF pairs = {} THEN RatZero
    ELSE LET p == CHOOSE q \in pairs : TRUE
         IN RatAdd(ratio(results[p[1]].text, results[p[2]].text),
                   SumSimilarities(results, pairs \ {p}))

calculate_consensus(results) ==
    IF Len(results) < 2 THEN RatOne
    ELSE LET pairs == Pairs(Len(results))
         IN IF pairs /= {}
            THEN RatDivInt(SumSimilarities(results, pairs), Cardinality(pairs))
            ELSE RatZero

(***************************************************************************)
(* OCRSelector.determine_orientation                                       *)
(***************************************************************************)
\* the keys of Counter(orientations), in order of first occurrence
RECURSIVE CounterKeys(_, _)
CounterKeys(orientations, n) ==
    IF n = 0 THEN <<>>
    ELSE LET keys == CounterKeys(orientations, n - 1)
         IN IF \E k \in 1 .. Len(keys) : keys[k] = orientations[n]
            THEN keys ELSE Append(keys, orientations[n])

CounterCount(orientations, o) ==
    Cardinality({i \in 1 .. Len(orientations) : orientations[i] = o})

\* the last of the most frequent keys instead of the first
RECURSIVE MostCommonLast(_, _, _)
MostCommonLast(orientations, keys, n) ==
    IF n = 1 THEN keys[1]
    ELSE LET prev == MostCommonLast(orientations, keys, n - 1)
         IN IF CounterCount(orientations, keys[n]) >= CounterCount(orientations, prev)
            THEN keys[n] ELSE prev

\* Counter.most_common(1): max over the items by count, so the first of the
\* most frequent keys
RECURSIVE MostCommon(_, _, _)
MostCommon(orientations, keys, n) ==
    IF n = 1 THEN keys[1]
    ELSE LET prev == MostCommon(orientations, keys, n - 1)
         IN IF CounterCount(orientations, keys[n]) > CounterCount(orientations, prev)
            THEN keys[n] ELSE prev

determine_orientation(results) ==
    LET orientations == [i \in 1 .. Len(results) |-> results[i].orientation]
        keys == CounterKeys(orientations, Len(orientations))
    IN MostCommon(orientations, keys, Len(keys))

(***************************************************************************)
(* OCRSelector.select_best                                                 *)
(***************************************************************************)
\* lines 85-97: the consensus built around the selected result; a selection
\* that left best_result at None fails on selected.text
Consensus(results, selected) ==
    IF selected = 0 THEN Raise("AttributeError")
    ELSE Return(OCRConsensus(results[selected].text, results[selected].engine,
                             results, calculate_consensus(results),
                             determine_orientation(results)))

\* Values a caller can pass as strategy that are no member of
\* OCRSelectionStrategy: a member of another enum, and a plain string.
\* Both enums are str enums, so a value equals a member exactly when the
\* strings are equal.
ENSEMBLE == "ensemble"
StrategyValues == OCRSelectionStrategy \cup {MIXED, ENSEMBLE}
\* line 83 formats strategy.value: only enum members have the attribute
has_value(strategy) == strategy \in OCRSelectionStrategy \cup TextOrientation

\* a dispatch that scores by confidence and weight when it knows no better
DispatchFallingBack(weights, results, strategy) ==
    IF strategy = MAJORITY_VOTE
    THEN Consensus(results, majority_vote_selection(results))
    ELSE Consensus(results, confidence_weighted_selection(weights, results))

\* lines 76-83: the strategy dispatch, as written
Dispatch(weights, results, strategy) ==
    IF strategy = CONFIDENCE_WEIGHTED
    THEN Consensus(results, confidence_weighted_selection(weights, results))
    ELSE IF strategy = MAJORITY_VOTE
    THEN Consensus(results, majority_vote_selection(results))
    ELSE IF strategy = MAJORITY_VOTE
    THEN Consensus(results, learned_selection(weights, results))
    ELSE IF has_value(strategy) THEN Raise("ValueError")
    ELSE Raise("AttributeError")

\* a single result returned with the agreement score in place of its confidence
SelectFromResultsScoreOne(weights, results, strategy) ==
    IF Len(results) = 1
    THEN Return(OCRConsensus(results[1].text, results[1].engine, results,
                             calculate_consensus(results),
                             results[1].orientation))
    ELSE Dispatch(weights, results, strategy)

\* lines 67-97: a non-empty list
SelectFromResults(weights, results, strategy) ==
    IF Len(results) = 1
    THEN Return(OCRConsensus(results[1].text, results[1].engine, results,
                             Rat(results[1].confidence, ConfScale),
                             results[1].orientation))
    ELSE Dispatch(weights, results, strategy)

\* an empty list answered with None instead of an exception
SelectBestOutcomeNoneForEmpty(weights, results, strategy) ==
    IF Len(results) = 0 THEN Return(None)
    ELSE SelectFromResults(weights, results, strategy)

SelectBestOutcome(weights, results, strategy) ==
    IF Len(results) = 0 THEN Raise("ValueError")
    ELSE SelectFromResults(weights, results, strategy)

\* a selection that enters every engine it meets into the mapping at 1.0
select_bestSeeding(results, strategy) ==
    /\ constructed
    /\ ret' = SelectBestOutcome(engine_weights, results, strategy)
    /\ call' = [op |-> "select_best", results |-> results,
                strategy |-> strategy]
    /\ engine_weights' =
          [e \in {results[i].engine : i \in 1 .. Len(results)}
                 \ DOMAIN engine_weights |-> WeightScale] @@ engine_weights
    /\ UNCHANGED <<weights_path, storage, constructed, nUpdates, extraction,
                   threads>>

select_best(results, strategy) ==
    /\ constructed
    /\ ret' = SelectBestOutcome(engine_weights, results, strategy)
    /\ call' = [op |-> "select_best", results |-> results,
                strategy |-> strategy]
    /\ UNCHANGED <<weights_path, engine_weights, storage, constructed, nUpdates,
                   extraction, threads>>

(***************************************************************************)
(* Inputs of the calls.                                                    *)
(***************************************************************************)
\* two engines of the default mapping and one the mapping does not hold
Engines == {"tesseract", "manga_ocr", "paddleocr"}
\* 0.6 at weight 1.0 and 0.5 at weight 1.2 score the same
Confidences == {0, 5, 6}
\* "", "a", "ab" and "ba": similarities 0, 1/2, 2/3 and 1
Texts == {<<>>, <<"a">>, <<"a", "b">>, <<"b", "a">>}

\* the lists of at most n results drawn from pool
ResultLists(pool, n) == UNION {[1 .. k -> pool] : k \in 0 .. n}

\* results that differ in engine and confidence
ScoredResults ==
    {OCRResult(e, <<"a">>, c, HORIZONTAL) : e \in Engines, c \in Confidences}
\* results that differ in text, from two engines of different confidence
VotingResults ==
    {OCRResult(p[1], t, p[2], VERTICAL) :
        p \in {<<"tesseract", 9>>, <<"manga_ocr", 5>>}, t \in Texts}
\* results that differ in engine and orientation
OrientedResults ==
    {OCRResult(e, <<"a", "b">>, 9, o) : e \in {"tesseract", "paddleocr"},
                                        o \in TextOrientation}

\* A call of select_best with any list and any strategy.  select_best
\* leaves the selector as it found it, so a call that follows another
\* select_best reaches no state the first one does not reach from the same
\* selector: the calls are explored after construction and after feedback.
Select(lists) ==
    /\ call.op /= "select_best"
    /\ \E results \in lists, strategy \in OCRSelectionStrategy :
           select_best(results, strategy)

\* A call of select_best with any list and any value as strategy, a member
\* of OCRSelectionStrategy or not.
SelectAny(lists) ==
    /\ call.op /= "select_best"
    /\ \E results \in lists, strategy \in StrategyValues :
           select_best(results, strategy)

\* A call of update_weights, while fewer than limit were made.
Feedback(engines, limit) ==
    /\ nUpdates < limit
    /\ \E engine \in engines, was_correct \in BOOLEAN :
           update_weights(engine, was_correct)

(***************************************************************************)
(* TextExtractor (text_extractor.py).  __init__ builds its selector with   *)
(* OCRSelector(), without a weights path, and its engine list with the     *)
(* literal `...` as third element: the object Ellipsis, which has neither  *)
(* an extract method nor a name.  What extract does inside an engine is    *)
(* not modelled: it returns a result or raises.                            *)
(***************************************************************************)
Ellipsis == "Ellipsis"
ocr_engines == <<"tesseract", "easyocr", Ellipsis>>

\* engine.name, read by both print calls of the loop
has_name(engine) == engine /= Ellipsis

\* what engine.extract(image_path, orientation_hint) can do
ExtractOutcomes(engine) ==
    IF engine = Ellipsis THEN {Raise("AttributeError")}
    ELSE {Raise("Exception")}
         \cup {Return(OCRResult(engine, t, c, o)) :
                  t \in {<<"a">>, <<"a", "b">>}, c \in Confidences,
                  o \in {HORIZONTAL, VERTICAL}}

\* one outcome of extract for every engine of the list
Extracts(engines) ==
    {x \in [1 .. Len(engines) ->
               UNION {ExtractOutcomes(engines[i]) : i \in 1 .. Len(engines)}] :
        \A i \in 1 .. Len(engines) : x[i] \in ExtractOutcomes(engines[i])}

\* lines 81-88: the loop from engine i on, ocr_results collected so far.
\* A failing extract is caught on line 87; the handler on line 88 reads
\* engine.name, and an exception raised there leaves the function.
RECURSIVE RunEngines(_, _, _, _)
RunEngines(engines, extracts, i, ocr_results) ==
    IF i > Len(engines)
    THEN [attempted |-> i - 1, ocr_results |-> ocr_results,
          outcome |-> Return(None)]
    ELSE IF extracts[i].status = "return"
    THEN RunEngines(engines, extracts, i + 1,
                    Append(ocr_results, extracts[i].value))
    ELSE IF has_name(engines[i])
    THEN RunEngines(engines, extracts, i + 1, ocr_results)
    ELSE [attempted |-> i, ocr_results |-> ocr_results,
          outcome |-> Raise("AttributeError")]

\* lines 81-97: the record of a call, given what each extract does
GetCharsOutcome(weights, engines, extracts) ==
    LET run == RunEngines(engines, extracts, 1, <<>>)
        record == [op |-> "get_chars_from_image",
                   extracts |-> SubSeq(extracts, 1, run.attempted),
                   ocr_results |-> run.ocr_results,
                   passed |-> <<>>,
                   outcome |-> run.outcome]
    IN IF run.outcome.status = "raise" THEN record
       ELSE IF run.ocr_results = <<>>
       THEN [record EXCEPT !.outcome = Raise("ValueError")]
       ELSE LET consensus == SelectBestOutcome(weights, run.ocr_results,
                                               CONFIDENCE_WEIGHTED)
            IN [record EXCEPT
                   !.passed = <<run.ocr_results>>,
                   !.outcome = IF consensus.status = "raise" THEN consensus
                               ELSE Return(run.ocr_results)]

get_chars_from_image(extracts) ==
    /\ constructed
    /\ weights_path = None
    /\ extraction.op = "none"
    /\ LET done == GetCharsOutcome(engine_weights, ocr_engines, extracts)
       IN /\ extraction' = done
          /\ IF done.passed = <<>>
             THEN UNCHANGED <<call, ret>>
             ELSE /\ call' = [op |-> "select_best",
                              results |-> done.passed[1],
                              strategy |-> CONFIDENCE_WEIGHTED]
                  /\ ret' = SelectBestOutcome(engine_weights, done.passed[1],
                                              CONFIDENCE_WEIGHTED)
    /\ UNCHANGED <<weights_path, engine_weights, storage, constructed, nUpdates,
                   threads>>

(***************************************************************************)
(* Calls that run in threads.  The source takes no lock and copies         *)
(* nothing: the threads of a process share self.engine_weights and the     *)
(* file at the weights path, and a thread can be suspended between any two *)
(* accesses to them.  A step below is one such access, named by the line   *)
(* it belongs to; pc is the step the thread takes next.                    *)
(***************************************************************************)
\* thread t at step pc of method op
At(t, op, pc) == threads[t].op = op /\ threads[t].pc = pc

\* update_weights is called in thread t
StartUpdate(t, engine, was_correct) ==
    /\ constructed
    /\ threads[t].pc = "idle"
    /\ threads' = [threads EXCEPT ![t] =
                      [IdleThread EXCEPT !.op = "update_weights",
                                         !.pc = "L227",
                                         !.engine = engine,
                                         !.was_correct = was_correct]]
    /\ UNCHANGED <<weights_path, engine_weights, storage, constructed,
                   nUpdates, call, ret, extraction>>

\* line 227: if engine not in self.engine_weights
TestSeeded(t) ==
    /\ At(t, "update_weights", "L227")
    /\ threads' = [threads EXCEPT ![t].pc =
                      IF threads[t].engine \in DOMAIN engine_weights
                      THEN "L231" ELSE "L228"]
    /\ UNCHANGED <<weights_path, engine_weights, storage, constructed,
                   nUpdates, call, ret, extraction>>

\* line 228: self.engine_weights[engine] = 1.0
Seed(t) ==
    /\ At(t, "update_weights", "L228")
    /\ engine_weights' =
          (threads[t].engine :> WeightScale) @@ engine_weights
    /\ threads' = [threads EXCEPT ![t].pc = "L231"]
    /\ UNCHANGED <<weights_path, storage, constructed, nUpdates, call, ret,
                   extraction>>

\* lines 231-234, first half of `*=`: the weight is read
LoadWeight(t) ==
    /\ At(t, "update_weights", "L231")
    /\ threads' = [threads EXCEPT
                      ![t].tmp = engine_weights[threads[t].engine],
                      ![t].pc = "L231s"]
    /\ UNCHANGED <<weights_path, engine_weights, storage, constructed,
                   nUpdates, call, ret, extraction>>

\* lines 231-234, second half of `*=`: the product is stored
StoreProduct(t) ==
    /\ At(t, "update_weights", "L231s")
    /\ engine_weights' =
          [engine_weights EXCEPT ![threads[t].engine] =
              IF threads[t].was_correct
              THEN Scaled(threads[t].tmp, PercentCorrect)
              ELSE Scaled(threads[t].tmp, PercentIncorrect)]
    /\ threads' = [threads EXCEPT ![t].pc = "L237"]
    /\ UNCHANGED <<weights_path, storage, constructed, nUpdates, call, ret,
                   extraction>>

\* line 237, right-hand side: the weight is read again
LoadForClamp(t) ==
    /\ At(t, "update_weights", "L237")
    /\ threads' = [threads EXCEPT
                      ![t].tmp = engine_weights[threads[t].engine],
                      ![t].pc = "L237s"]
    /\ UNCHANGED <<weights_path, engine_weights, storage, constructed,
                   nUpdates, call, ret, extraction>>

\* line 237, assignment: the clamped value is stored
StoreClamped(t) ==
    /\ At(t, "update_weights", "L237s")
    /\ engine_weights' =
          [engine_weights EXCEPT ![threads[t].engine] = Clamp(threads[t].tmp)]
    /\ threads' = [threads EXCEPT ![t].pc = "L244"]
    /\ UNCHANGED <<weights_path, storage, constructed, nUpdates, call, ret,
                   extraction>>

\* lines 240 and 244: _save_weights is entered; without a path it returns
TestPath(t) ==
    /\ At(t, "update_weights", "L244")
    /\ threads' = [threads EXCEPT ![t].pc =
                      IF weights_path /= None THEN "L246" ELSE "done"]
    /\ UNCHANGED <<weights_path, engine_weights, storage, constructed,
                   nUpdates, call, ret, extraction>>

\* lines 245-246: open(path, 'w') creates or truncates the file
OpenForWriting(t) ==
    /\ At(t, "update_weights", "L246")
    /\ storage' = EmptyFile
    /\ threads' = [threads EXCEPT ![t].pc = "L247"]
    /\ UNCHANGED <<weights_path, engine_weights, constructed, nUpdates, call,
                   ret, extraction>>

\* line 247: json.dump(self.engine_weights, f, indent=2)
Dump(t) ==
    /\ At(t, "update_weights", "L247")
    /\ LET dumped == json_dump(engine_weights, storage)
       IN /\ storage' = (IF dumped.status = "raise" THEN storage
                         ELSE JsonFile(engine_weights))
          /\ threads' = [threads EXCEPT ![t].outcome = dumped,
                                        ![t].pc = "done"]
    /\ UNCHANGED <<weights_path, engine_weights, constructed, nUpdates, call,
                   ret, extraction>>

\* a step of update_weights in thread t
StepUpdate(t) ==
    \/ TestSeeded(t)
    \/ Seed(t)
    \/ LoadWeight(t)
    \/ StoreProduct(t)
    \/ LoadForClamp(t)
    \/ StoreClamped(t)
    \/ TestPath(t)
    \/ OpenForWriting(t)
    \/ Dump(t)

\* select_best(results) is called in thread t with the default strategy,
\* CONFIDENCE_WEIGHTED: lines 64-74 answer a list of fewer than two
\* results, line 77 enters the loop of confidence_weighted_selection
StartSelect(t, results) ==
    /\ constructed
    /\ threads[t].pc = "idle"
    /\ threads' = [threads EXCEPT ![t] =
          IF Len(results) < 2
          THEN [IdleThread EXCEPT
                   !.op = "select_best", !.pc = "done", !.results = results,
                   !.outcome = SelectBestOutcome(engine_weights, results,
                                                 CONFIDENCE_WEIGHTED)]
          ELSE [IdleThread EXCEPT
                   !.op = "select_best", !.pc = "L114", !.results = results]]
    /\ UNCHANGED <<weights_path, engine_weights, storage, constructed,
                   nUpdates, call, ret, extraction>>

\* the consensus select_best returns when its loop read the weights reads
ConsensusFromReads(results, reads) ==
    LET scores == [i \in 1 .. Len(results) |-> results[i].confidence * reads[i]]
    IN Consensus(results,
                 BestSoFar(scores, ConfScale * WeightScale, Len(results))[1])

\* line 114, once for every result: self.engine_weights.get(engine, 1.0);
\* after the last one lines 115-121 and 85-97 touch nothing shared
ReadWeight(t) ==
    /\ At(t, "select_best", "L114")
    /\ LET results == threads[t].results
           i == Len(threads[t].reads) + 1
           reads == Append(threads[t].reads,
                           WeightOf(engine_weights, results[i].engine))
       IN threads' = [threads EXCEPT ![t] =
             IF i < Len(results)
             THEN [@ EXCEPT !.reads = reads]
             ELSE [@ EXCEPT !.reads = reads, !.pc = "done",
                            !.outcome = ConsensusFromReads(results, reads)]]
    /\ UNCHANGED <<weights_path, engine_weights, storage, constructed,
                   nUpdates, call, ret, extraction>>

\* OCRSelector(weights_path) is called in thread t: a second selector is
\* constructed for the path of the first and runs load_weights
StartLoad(t) ==
    /\ constructed
    /\ weights_path /= None
    /\ threads[t].pc = "idle"
    /\ threads' = [threads EXCEPT ![t] =
                      [IdleThread EXCEPT !.op = "load_weights", !.pc = "L38"]]
    /\ UNCHANGED <<weights_path, engine_weights, storage, constructed,
                   nUpdates, call, ret, extraction>>

\* line 38: if self.weights_path and Path(self.weights_path).exists();
\* lines 42-47 return the defaults otherwise
TestExists(t) ==
    /\ At(t, "load_weights", "L38")
    /\ threads' = [threads EXCEPT ![t] =
          IF storage /= Absent
          THEN [@ EXCEPT !.pc = "L39"]
          ELSE [@ EXCEPT !.pc = "done", !.outcome = Return(DefaultWeights)]]
    /\ UNCHANGED <<weights_path, engine_weights, storage, constructed,
                   nUpdates, call, ret, extraction>>

\* line 39: open(self.weights_path, 'r')
OpenForReading(t) ==
    /\ At(t, "load_weights", "L39")
    /\ threads' = [threads EXCEPT ![t].pc = "L40"]
    /\ UNCHANGED <<weights_path, engine_weights, storage, constructed,
                   nUpdates, call, ret, extraction>>

\* line 40: json.load(f), over the content the file has now
LoadFile(t) ==
    /\ At(t, "load_weights", "L40")
    /\ threads' = [threads EXCEPT ![t].seen = storage,
                                  ![t].outcome = json_load(storage),
                                  ![t].pc = "done"]
    /\ UNCHANGED <<weights_path, engine_weights, storage, constructed,
                   nUpdates, call, ret, extraction>>

\* a step of load_weights in thread t
StepLoad(t) ==
    \/ TestExists(t)
    \/ OpenForReading(t)
    \/ LoadFile(t)

\* update_weights(engine, True) called while no thread runs, fewer than
\* limit times
WarmUp(engine, limit) ==
    /\ \A t \in Threads : threads[t].pc = "idle"
    /\ nUpdates < limit
    /\ update_weights(engine, TRUE)

(***************************************************************************)
(* Specifications.                                                         *)
(***************************************************************************)
\* feedback: long runs of update_weights on one engine, after at most
\* MaxFeedback calls for an engine the mapping does not hold
NextFeedback ==
    \/ Feedback({"tesseract"}, MaxUpdates)
    \/ Feedback({"paddleocr"}, MaxFeedback)
SpecFeedback == Init /\ [][NextFeedback]_vars

\* scoring: select_best over results that differ in engine and confidence
NextScored ==
    \/ Select(ResultLists(ScoredResults, MaxScored))
    \/ Feedback({"paddleocr"}, MaxFeedback)
SpecScored == Init /\ [][NextScored]_vars

\* voting: select_best over results that differ in engine and text
NextVoting ==
    \/ Select(ResultLists(VotingResults, MaxVoters))
    \/ Feedback({"tesseract"}, MaxFeedback)
SpecVoting == Init /\ [][NextVoting]_vars

\* orientation: select_best over results that differ in orientation
NextOriented ==
    \/ Select(ResultLists(OrientedResults, MaxOriented))
    \/ Feedback({"manga_ocr"}, MaxFeedback)
SpecOriented == Init /\ [][NextOriented]_vars

\* strategy values: select_best with values that are no strategy
GivenResults ==
    {OCRResult(e, <<"a">>, c, HORIZONTAL) : e \in {"tesseract", "manga_ocr"},
                                           c \in {5, 6}}
NextStrategy ==
    \/ SelectAny(ResultLists(GivenResults, MaxGiven))
    \/ Feedback({"tesseract"}, MaxFeedback)
SpecStrategy == Init /\ [][NextStrategy]_vars

\* extraction: get_chars_from_image over what the engines can do
NextExtract == \E extracts \in Extracts(ocr_engines) :
                   get_chars_from_image(extracts)
SpecExtract == Init /\ [][NextExtract]_vars

\* lost update: two threads call update_weights
NextLostUpdate ==
    \E t \in Threads :
        \/ \E engine \in {"tesseract", "paddleocr"}, was_correct \in BOOLEAN :
               StartUpdate(t, engine, was_correct)
        \/ StepUpdate(t)
SpecLostUpdate == Init /\ [][NextLostUpdate]_vars

\* torn save: update_weights saves while a second selector loads
NextTornSave ==
    \E t \in Threads :
        \/ \E engine \in {"tesseract", "paddleocr"} :
               StartUpdate(t, engine, TRUE)
        \/ StepUpdate(t)
        \/ StartLoad(t)
        \/ StepLoad(t)
SpecTornSave == Init /\ [][NextTornSave]_vars

\* dirty read: select_best reads the weights update_weights is writing,
\* after feedback that took manga_ocr close to the upper end of the range
RacingResults ==
    {OCRResult(e, <<"a">>, 9, VERTICAL) : e \in {"manga_ocr", "paddleocr"}}
NextDirtyRead ==
    \/ WarmUp("manga_ocr", MaxWarm)
    \/ \E engine \in {"manga_ocr", "paddleocr"} :
           StartUpdate(1, engine, TRUE)
    \/ StepUpdate(1)
    \/ \E results \in ResultLists(RacingResults, MaxRacing) :
           StartSelect(2, results)
    \/ ReadWeight(2)
SpecDirtyRead == Init /\ [][NextDirtyRead]_vars

(***************************************************************************)
(* Properties.                                                             *)
(***************************************************************************)
\* the last call was select_best with at least n results
SelectedAmong(n) == call.op = "select_best" /\ Len(call.results) >= n
\* the last call returned
Returned == ret.status = "return"
\* the consensus names result i of the list
Names(consensus, results, i) ==
    /\ consensus.selected_engine = results[i].engine
    /\ consensus.selected_text = results[i].text
\* i is the first index at which the sequence keys is greatest
FirstGreatest(keys, i) ==
    /\ \A j \in 1 .. Len(keys) : keys[j] <= keys[i]
    /\ \A j \in 1 .. i - 1 : keys[j] < keys[i]
\* the sum of the rationals f[x] over the x of the finite set S
RECURSIVE RatSum(_, _)
RatSum(f, S) ==
    IF S = {} THEN RatZero
    ELSE LET x == CHOOSE y \in S : TRUE
         IN RatAdd(f[x], RatSum(f, S \ {x}))
\* the stored weight of an engine, or 1.0
StoredOrOne(engine) ==
    IF engine \in DOMAIN engine_weights THEN engine_weights[engine]
    ELSE WeightScale

\* C1: for every non-empty results list and every strategy, select_best
\* returns a consensus whose selected_engine and selected_text are the engine
\* and the text of one of the input results.
C1_ReturnsOneOfTheResults ==
    SelectedAmong(1) =>
        /\ Returned
        /\ \E i \in 1 .. Len(call.results) : Names(ret.value, call.results, i)

\* C2: select_best with an empty results list raises ValueError for every
\* strategy, returns no consensus, and leaves the weight mapping and the
\* weight storage unchanged.
C2_EmptyListRaises ==
    [][(call'.op = "select_best" /\ Len(call'.results) = 0) =>
          /\ ret'.status = "raise"
          /\ ret'.value = "ValueError"
          /\ engine_weights' = engine_weights
          /\ storage' = storage]_vars

C2_Witness ==
    /\ call.op = "select_best"
    /\ Len(call.results) = 0
    /\ call.strategy = LEARNED
    /\ weights_path = WeightsFile

\* C3: select_best with exactly one result r returns, for any strategy, a
\* consensus with r's text, engine and orientation and with consensus_score
\* equal to r's confidence, whatever the engine weights are.
C3_SingleResultWrapped ==
    (call.op = "select_best" /\ Len(call.results) = 1) =>
        /\ Returned
        /\ ret.value.selected_text = call.results[1].text
        /\ ret.value.selected_engine = call.results[1].engine
        /\ ret.value.consensus_score[1] * ConfScale
              = call.results[1].confidence * ret.value.consensus_score[2]
        /\ ret.value.orientation = call.results[1].orientation

C3_Witness ==
    /\ call.op = "select_best"
    /\ Len(call.results) = 1
    /\ call.strategy = LEARNED
    /\ call.results[1].engine = "manga_ocr"
    /\ call.results[1].confidence = 5
    /\ "paddleocr" \in DOMAIN engine_weights
    /\ Returned
    /\ ret.value.consensus_score = <<1, 2>>

\* C4: under CONFIDENCE_WEIGHTED with two or more results, select_best
\* selects the result whose score confidence * weight(engine) is greatest,
\* weight(engine) being the stored weight or 1.0 for an engine the mapping
\* does not hold; of several results with the greatest score the earliest
\* in input order is selected.
C4_ConfidenceWeighted ==
    (SelectedAmong(2) /\ call.strategy = CONFIDENCE_WEIGHTED) =>
        /\ Returned
        /\ LET score == [i \in 1 .. Len(call.results) |->
                            call.results[i].confidence
                               * StoredOrOne(call.results[i].engine)]
           IN \E i \in 1 .. Len(call.results) :
                 /\ FirstGreatest(score, i)
                 /\ Names(ret.value, call.results, i)

\* tesseract at confidence 0.6 and weight 1.0 ties with manga_ocr at
\* confidence 0.5 and weight 1.2; the earlier of the two is selected
C4_Witness ==
    /\ SelectedAmong(2)
    /\ call.strategy = CONFIDENCE_WEIGHTED
    /\ Len(call.results) = 3
    /\ call.results[1].engine = "paddleocr" /\ call.results[1].confidence = 5
    /\ call.results[2].engine = "tesseract" /\ call.results[2].confidence = 6
    /\ call.results[3].engine = "manga_ocr" /\ call.results[3].confidence = 5
    /\ engine_weights = DefaultWeights
    /\ Returned
    /\ ret.value.selected_engine = "tesseract"

\* C5: under LEARNED with two or more results, select_best selects the
\* result whose score confidence * 0.3 + weight(engine) * 0.7 is greatest,
\* the earliest in input order winning on ties.
C5_Learned ==
    (SelectedAmong(2) /\ call.strategy = LEARNED) =>
        /\ Returned
        /\ LET score == [i \in 1 .. Len(call.results) |->
                            3 * call.results[i].confidence * WeightScale
                               + 7 * ConfScale * StoredOrOne(call.results[i].engine)]
           IN \E i \in 1 .. Len(call.results) :
                 /\ FirstGreatest(score, i)
                 /\ Names(ret.value, call.results, i)

\* C6: under MAJORITY_VOTE with two or more results, select_best selects
\* the result i whose mean similarity(text_i, text_j) over all j /= i is
\* greatest, the first such result in input order; confidences and engine
\* weights play no part.
C6_MajorityVote ==
    (SelectedAmong(2) /\ call.strategy = MAJORITY_VOTE) =>
        /\ Returned
        /\ LET n == Len(call.results)
               Mean(i) ==
                   LET sim == [j \in 1 .. n |->
                                  ratio(call.results[i].text, call.results[j].text)]
                   IN RatDivInt(RatSum(sim, (1 .. n) \ {i}), n - 1)
           IN \E i \in 1 .. n :
                 /\ \A j \in 1 .. n : ~RatGreater(Mean(j), Mean(i))
                 /\ \A j \in 1 .. i - 1 : RatGreater(Mean(i), Mean(j))
                 /\ Names(ret.value, call.results, i)

\* "ab", "ba" and "": the first two both have mean similarity 1/4 to the
\* others, the third 0; the first is selected, though the second has the
\* greater confidence
C6_Witness ==
    /\ SelectedAmong(2)
    /\ call.strategy = MAJORITY_VOTE
    /\ Len(call.results) = 3
    /\ call.results[1].text = <<"a", "b">>
    /\ call.results[2].text = <<"b", "a">>
    /\ call.results[3].text = <<>>
    /\ call.results[1].engine = "manga_ocr"
    /\ call.results[2].engine = "tesseract"
    /\ call.results[1].confidence < call.results[2].confidence
    /\ Returned
    /\ ret.value.selected_text = <<"a", "b">>
    /\ ret.value.selected_engine = "manga_ocr"

\* C7: for two or more results and every strategy, the returned
\* consensus_score is the mean of similarity over all unordered pairs of
\* input texts and lies in [0, 1]; it is 1.0 when all texts are identical.
C7_ConsensusScore ==
    SelectedAmong(2) =>
        /\ Returned
        /\ LET n == Len(call.results)
               pairs == {p \in (1 .. n) \X (1 .. n) : p[1] < p[2]}
               sim == [p \in pairs |->
                          ratio(call.results[p[1]].text, call.results[p[2]].text)]
               sum == RatSum(sim, pairs)
               score == ret.value.consensus_score
           IN /\ score[1] * sum[2] * Cardinality(pairs) = sum[1] * score[2]
              /\ 0 <= score[1] /\ score[1] <= score[2]
              /\ (\A i \in 1 .. n : call.results[i].text = call.results[1].text)
                    => score = <<1, 1>>

\* C8: for two or more results, the orientation of the consensus is the
\* value occurring most often among the inputs; of several values tied for
\* most frequent, the one whose first occurrence is earliest.
C8_Orientation ==
    (SelectedAmong(2) /\ Returned) =>
        LET n == Len(call.results)
            Count(o) == Cardinality({i \in 1 .. n : call.results[i].orientation = o})
            First(o) == CHOOSE i \in 1 .. n :
                            /\ call.results[i].orientation = o
                            /\ \A j \in 1 .. i - 1 : call.results[j].orientation /= o
            present == {call.results[i].orientation : i \in 1 .. n}
        IN /\ ret.value.orientation \in present
           /\ \A o \in present :
                 \/ Count(o) < Count(ret.value.orientation)
                 \/ /\ Count(o) = Count(ret.value.orientation)
                    /\ First(ret.value.orientation) <= First(o)

C8_Witness ==
    /\ SelectedAmong(2)
    /\ Returned
    /\ [i \in 1 .. Len(call.results) |-> call.results[i].orientation]
          = <<VERTICAL, HORIZONTAL, VERTICAL>>
    /\ ret.value.orientation = VERTICAL

\* C9: update_weights(engine, was_correct) sets the engine's weight to
\* clamp(w * 1.05, 0.1, 2.0) when was_correct and to clamp(w * 0.95, 0.1,
\* 2.0) otherwise, w being the engine's weight before the call or 1.0 for an
\* engine the mapping did not hold, and leaves every other weight unchanged.
C9_UpdateWeights ==
    [][(call'.op = "update_weights" /\ nUpdates' = nUpdates + 1) =>
          LET e == call'.engine
              w == StoredOrOne(e)
              product == IF call'.was_correct THEN (w * 105 + 50) \div 100
                         ELSE (w * 95 + 50) \div 100
              clamped == IF 10 * product < WeightScale THEN WeightScale \div 10
                         ELSE IF product > 2 * WeightScale THEN 2 * WeightScale
                         ELSE product
          IN /\ DOMAIN engine_weights' = DOMAIN engine_weights \cup {e}
             /\ engine_weights'[e] = clamped
             /\ \A o \in DOMAIN engine_weights \ {e} :
                   engine_weights'[o] = engine_weights[o]]_vars

\* one correct feedback for an engine the mapping did not hold yields 1.05
C9_Witness ==
    /\ call.op = "update_weights"
    /\ call.engine = "paddleocr"
    /\ call.was_correct
    /\ nUpdates = 1
    /\ 100 * engine_weights["paddleocr"] = 105 * WeightScale
    /\ 10 * engine_weights["manga_ocr"] = 12 * WeightScale

\* C10: every weight the mapping holds lies in [0.1, 2.0], after
\* construction and after any sequence of update_weights calls.
C10_WeightsInRange ==
    \A e \in DOMAIN engine_weights :
        /\ WeightScale <= 10 * engine_weights[e]
        /\ engine_weights[e] <= 2 * WeightScale

\* forty-five incorrect feedbacks take 1.0 below 0.1, where it is clamped
C10_Witness ==
    /\ call.op = "update_weights"
    /\ ~call.was_correct
    /\ nUpdates = 45
    /\ 10 * engine_weights["tesseract"] = WeightScale

\* C11: a select_best call, whether it returns or raises, leaves the weight
\* mapping as it was (no weight changed, no entry added for an engine the
\* mapping does not hold) and leaves the weight storage as it was; the
\* all_results of a returned consensus is the input list, in its order.
C11_SelectBestFrame ==
    [][(call'.op = "select_best" /\ call.op /= "select_best") =>
          /\ DOMAIN engine_weights' = DOMAIN engine_weights
          /\ engine_weights' = engine_weights
          /\ storage' = storage
          /\ (ret'.status = "return" =>
                 ret'.value.all_results = call'.results)]_vars

\* a returned selection among an engine the mapping does not hold and one
\* it holds, on a selector with a weights path
C11_Witness ==
    /\ call.op = "select_best"
    /\ call.strategy = CONFIDENCE_WEIGHTED
    /\ Len(call.results) = 2
    /\ call.results[1].engine = "paddleocr"
    /\ call.results[2].engine = "tesseract"
    /\ weights_path = WeightsFile
    /\ Returned
    /\ ret.value.all_results = call.results
    /\ "paddleocr" \notin DOMAIN engine_weights

\* C12: after an update_weights call on a selector with a weights path the
\* call has completed without error and the weight storage holds exactly
\* the in-memory mapping, so that a fresh load from the same path returns a
\* mapping equal to it; no adjustment is left unflushed.  (No fault of the
\* file system is modelled: a call that does not complete fails in the
\* code's own persist step.)
C12_StorageHoldsMapping ==
    (call.op = "update_weights" /\ weights_path /= None) =>
        /\ Returned
        /\ storage = JsonFile(engine_weights)
        /\ load_weights(weights_path, storage) = Return(engine_weights)

\* C13: constructing the selector never fails: when the weights file is
\* absent or holds no valid JSON, construction succeeds and the mapping is
\* the default {tesseract: 1.0, easyocr: 1.0, manga_ocr: 1.2}.
C13_LoadNeverFails ==
    (call.op = "__init__" /\ storage \in {Absent, EmptyFile}) =>
        /\ constructed
        /\ ret.status = "return"
        /\ engine_weights = DefaultWeights

\* C14: when the persist step of update_weights fails, the call raises and
\* the mapping keeps the adjustment; a select_best call that follows scores
\* with the adjusted weight; and whenever the storage is written, it holds
\* the whole current mapping.
C14_FailedPersistKeepsAdjustment ==
    [][/\ (/\ call'.op = "update_weights"
           /\ nUpdates' = nUpdates + 1
           /\ weights_path /= None) =>
              LET e == call'.engine
                  w == StoredOrOne(e)
                  product == IF call'.was_correct
                             THEN (w * 105 + 50) \div 100
                             ELSE (w * 95 + 50) \div 100
                  clamped == IF 10 * product < WeightScale
                             THEN WeightScale \div 10
                             ELSE IF product > 2 * WeightScale
                             THEN 2 * WeightScale
                             ELSE product
              IN ret'.status = "raise" =>
                    /\ e \in DOMAIN engine_weights'
                    /\ engine_weights'[e] = clamped
       /\ (/\ call.op = "update_weights"
           /\ ret.status = "raise"
           /\ call'.op = "select_best"
           /\ call'.strategy = CONFIDENCE_WEIGHTED
           /\ Len(call'.results) >= 2) =>
              /\ ret'.status = "return"
              /\ LET score == [i \in 1 .. Len(call'.results) |->
                                  call'.results[i].confidence
                                     * StoredOrOne(call'.results[i].engine)]
                 IN \E i \in 1 .. Len(call'.results) :
                       /\ FirstGreatest(score, i)
                       /\ Names(ret'.value, call'.results, i)
       /\ (storage' /= storage /\ storage'.content = "json") =>
              storage'.mapping = engine_weights']_vars

\* after a correct feedback for paddleocr whose save raised and left an
\* empty file, paddleocr at 0.6 and weight 1.05 is selected over tesseract
\* at 0.6 and weight 1.0, which precedes it
C14_Witness ==
    /\ weights_path = WeightsFile
    /\ storage = EmptyFile
    /\ nUpdates = 1
    /\ 100 * StoredOrOne("paddleocr") = 105 * WeightScale
    /\ call.op = "select_best"
    /\ call.strategy = CONFIDENCE_WEIGHTED
    /\ Len(call.results) = 2
    /\ call.results[1].engine = "tesseract"
    /\ call.results[1].confidence = 6
    /\ call.results[2].engine = "paddleocr"
    /\ call.results[2].confidence = 6
    /\ Returned
    /\ ret.value.selected_engine = "paddleocr"

C19_EnginesAttemptedFailuresOmitted ==
    extraction.op = "get_chars_from_image" =>
        LET ok == SelectSeq(extraction.extracts,
                            LAMBDA x : x.status = "return")
            succeeded == [k \in 1 .. Len(ok) |-> ok[k].value]
        IN /\ Len(extraction.extracts) = Len(ocr_engines)
           /\ IF succeeded = <<>>
              THEN /\ extraction.passed = <<>>
                   /\ extraction.outcome = Raise("ValueError")
              ELSE extraction.passed = <<succeeded>>

\* C15: when two threads have called update_weights for the same engine,
\* whose weight was 1.0 (stored, or the baseline of an engine the mapping
\* did not hold), one with was_correct = True and one with False, and both
\* calls are over, the engine's weight is 1.0 * 1.05 * 0.95 = 0.9975: both
\* multiplications, in either order.
C15_NoLostUpdate ==
    (/\ \A t \in Threads : At(t, "update_weights", "done")
     /\ threads[1].engine = threads[2].engine
     /\ threads[1].was_correct /= threads[2].was_correct) =>
        /\ threads[1].engine \in DOMAIN engine_weights
        /\ 400 * engine_weights[threads[1].engine] = 399 * WeightScale

\* C16: a load that reads the file at the weights path, in a process whose
\* selector saves to that path, reads a complete mapping (the previous or
\* the new one) and returns it; it never reads an empty file.
C16_LoadReadsCompleteMapping ==
    \A t \in Threads :
        (At(t, "load_weights", "done") /\ threads[t].seen /= Absent) =>
            /\ threads[t].seen.content = "json"
            /\ threads[t].outcome.status = "return"
            /\ threads[t].outcome.value = threads[t].seen.mapping

\* C17: every weight a select_best call has read while update_weights runs
\* is the weight before or after a complete adjustment.  Such a weight lies
\* in [0.1, 2.0]; the value the mapping holds between the multiplication
\* and the clamp is the only one that does not.
C17_ReadsNoIntermediateWeight ==
    \A t \in Threads :
        threads[t].op = "select_best" =>
            \A k \in 1 .. Len(threads[t].reads) :
                /\ WeightScale <= 10 * threads[t].reads[k]
                /\ threads[t].reads[k] <= 2 * WeightScale

====
